---- MODULE Spec2Model ----
(***************************************************************************)
(* State-machine model of the dialogue turn scheduler of the roundtable    *)
(* repository: DialogueOrchestrator in src/orchestrator/service.py.        *)
(*                                                                         *)
(* A "run" is one call of start_session: it owns an in-memory copy of the  *)
(* Session aggregate (status, current_round, participants, messages) and   *)
(* the locals of _run_dialogue.  The store (the persisted status) and the  *)
(* class-level registry _stop_events are shared with stop_session calls.   *)
(* Every await of _run_dialogue at which another coroutine can run is a    *)
(* separate step of the run.                                               *)
(***************************************************************************)
EXTENDS Integers, Sequences, FiniteSets, TLC

\* ---------------------------------------------------------------- bounds
MaxParticipants == 2
MaxRounds == 3
MaxTurns == 4
MaxStops == 2
MaxProviders == 3
MaxPersonas == 2
MaxSeats == 3
MaxSteps == 4
MaxAdvance == 8

\* ------------------------------------------------------ program constants
RepeatLimit == 2
TailSize == 3
SnippetMax == 200
DefaultMaxRounds == 5

Runs == {1, 2}
SessionIds == {1, 2}

VARIABLES
    sessions,          \* ids of the Session rows that exist in the store
    users,             \* ids of the User rows that exist in the store
    providers,         \* ids of the enabled Provider rows, by Provider.order_index
    personalities,     \* ids of the Personality rows, by id
    created,           \* per session: what create_session did for it
    sid,               \* sid[r]: the session id run r was called with (0: run unused)
    max_rounds,        \* Session.max_rounds, per session
    participants,      \* per session: participant id -> order_index
    settings,          \* the limits resolved by _refresh_limits_from_settings
    usage_metadata,    \* whether the adapters report usage metadata
    reply_choices,     \* the texts a generation call may return
    stop_budget,       \* per session: how many stop_session calls are explored
    seating,           \* RoundTableSession._participants, the seating order
    rotation,          \* RoundTableSession._rotation, the deque
    advanced,          \* the steps of the advance_round calls that returned
    advance_result,    \* the last advance_round call and its outcome
    worker,            \* the worker variant: RoundTableOrchestrator.run and its session row
    dbStatus,          \* Session.status as persisted in the store, per session
    store,             \* per session: the committed Message rows and participant statuses
    loaded,            \* number of Message rows run r loaded with the session
    stop_events,       \* DialogueOrchestrator._stop_events and the Event objects
    stopCalls,         \* number of stop_session calls issued, per session
    stopPending,       \* stop_session calls whose status write is not flushed yet
    pc,                \* position of run r
    status,            \* session.status of run r's in-memory Session
    current_round,     \* session.current_round
    idx,               \* position of the for loop in the sorted participants
    pstatus,           \* participant.status, per run and participant id
    participant_cache, \* participant_cache of _run_dialogue
    messages,          \* session.messages
    stop_requested,
    dialogue_stopped,
    stop_reason,
    stop_event,        \* the Event object _run_dialogue was handed
    turnLog,           \* history: the turns whose generation call returned
    exit_reason,       \* history: the statement that left the round loop
    final_read,        \* history: the status re-read after the round loop
    stop_mark,         \* history: model messages at a stop issued during a turn
    audit_log,         \* the AuditLog rows added by run r, in order
    stop_audit,        \* per session: the AuditLog rows added by stop_session
    callbacks,         \* history: the calls of progress_callback made by run r
    limit_checks,      \* history: the totals and results of _check_usage_limits
    finished_at        \* per session: how many times Session.finished_at was written

tableVars == <<seating, rotation, advanced, advance_result>>
cfgVars == <<sessions, users, providers, personalities, created, sid, max_rounds,
             participants, settings, usage_metadata, reply_choices, stop_budget,
             tableVars, worker>>
stopVars == <<stopCalls, stopPending>>
loopVars == <<status, current_round, idx, pstatus, participant_cache, messages,
              stop_requested, dialogue_stopped, stop_reason, stop_event>>
histVars == <<turnLog, exit_reason, final_read, stop_mark>>
logVars == <<audit_log, callbacks, limit_checks, finished_at, stop_audit>>
storeVars == <<store, loaded>>
vars == <<cfgVars, dbStatus, storeVars, stop_events, stopVars, pc, loopVars, histVars,
          logVars>>

\* ------------------------------------------------------------------ texts
\* A text is a sequence of characters.
Replies == {<<" ">>, <<"a">>, <<"a", " ">>, <<"b">>}
Topic == <<"t">>

RECURSIVE LStrip(_)
LStrip(t) == IF t = <<>> THEN t
             ELSE IF Head(t) = " " THEN LStrip(Tail(t)) ELSE t

RECURSIVE RStrip(_)
RStrip(t) == IF t = <<>> THEN t
             ELSE IF t[Len(t)] = " " THEN RStrip(SubSeq(t, 1, Len(t) - 1)) ELSE t

StripId(t) == t

\* str.strip()
Strip(t) == RStrip(LStrip(t))

\* orchestrator.token_counter.estimate_tokens: a deterministic estimate from
\* the length of the text
EstimateTokens(t) == Len(t)

RECURSIVE SumSeq(_)
SumSeq(s) == IF s = <<>> THEN 0 ELSE Head(s) + SumSeq(Tail(s))

\* ------------------------------------------------------------- the store
Statuses == {"draft", "running", "finished", "stopped", "failed"}
Terminal == {"finished", "stopped", "failed"}

Message(author_type, author, content, tokens_in, tokens_out, cost) ==
    [author_type |-> author_type, author |-> author, content |-> content,
     tokens_in |-> tokens_in, tokens_out |-> tokens_out, cost |-> cost]

ParticipantIds(s) == DOMAIN participants[s]

SortedById(s) == [i \in 1..Cardinality(ParticipantIds(s)) |-> i]

\* sorted(session.participants, key=lambda p: p.order_index)
SortedParticipants(s) ==
    CHOOSE q \in [1..Cardinality(ParticipantIds(s)) -> ParticipantIds(s)] :
        \A i, j \in DOMAIN q :
            i < j => participants[s][q[i]] < participants[s][q[j]]

ModelMessages(ms) == SelectSeq(ms, LAMBDA m : m.author_type = "model")
Authors(ms) == [i \in 1..Len(ms) |-> ms[i].author]

\* ------------------------------------------------- cancellation registry
\* stop_events.map is the dict _stop_events (0: no entry for the id);
\* stop_events.events[e] is Event e's flag.  An Event taken out of the dict
\* lives on for whoever still holds it.
NewEvent(se, s, flag) ==
    [map |-> [se.map EXCEPT ![s] = Len(se.events) + 1],
     events |-> Append(se.events, flag)]

GetStopEventAnyEntry(se, s) ==
    IF se.map[s] # 0 THEN se
    ELSE IF \E t \in DOMAIN se.map : se.map[t] # 0
         THEN [se EXCEPT !.map[s] = se.map[CHOOSE t \in DOMAIN se.map : se.map[t] # 0]]
         ELSE NewEvent(se, s, FALSE)

\* _get_stop_event: the registry afterwards
GetStopEvent(se, s) == IF se.map[s] = 0 THEN NewEvent(se, s, FALSE) ELSE se

TriggerStopOnlyNew(se, s) == IF se.map[s] = 0 THEN NewEvent(se, s, TRUE) ELSE se

\* _trigger_stop
TriggerStop(se, s) ==
    LET g == GetStopEvent(se, s)
    IN  [g EXCEPT !.events[g.map[s]] = TRUE]

ClearStopEventPopOnly(se, s) == [se EXCEPT !.map[s] = 0]

\* _clear_stop_event
ClearStopEvent(se, s) ==
    IF se.map[s] = 0 THEN se
    ELSE [map |-> [se.map EXCEPT ![s] = 0],
          events |-> [se.events EXCEPT ![se.map[s]] = TRUE]]

IsSet(se, e) == e # 0 /\ se.events[e]

\* ------------------------------------------------- usage and compression
\* _context_exceeds_limit
ContextExceedsLimit(ms, limit) ==
    SumSeq([i \in 1..Len(ms) |-> EstimateTokens(ms[i].content)]) > limit

CalculateUsageTokensOnly(ms) ==
    [tokens |-> SumSeq([i \in 1..Len(ms) |-> ms[i].tokens_in + ms[i].tokens_out]),
     cost |-> 0]

\* _calculate_usage
CalculateUsage(ms) ==
    [tokens |-> SumSeq([i \in 1..Len(ms) |-> ms[i].tokens_in + ms[i].tokens_out]),
     cost |-> SumSeq([i \in 1..Len(ms) |-> ms[i].cost])]

CheckUsageLimitsAtLimit(ms, st) ==
    LET u == CalculateUsage(ms)
    IN  IF st.max_session_tokens # 0 /\ u.tokens >= st.max_session_tokens
        THEN "token_limit"
        ELSE IF st.max_cost_per_session # 0 /\ u.cost >= st.max_cost_per_session
        THEN "cost_limit"
        ELSE "none"

\* _check_usage_limits ("none": no limit is exceeded); an unset limit is 0
CheckUsageLimits(ms, st) ==
    LET u == CalculateUsage(ms)
    IN  IF st.max_session_tokens # 0 /\ u.tokens > st.max_session_tokens
        THEN "token_limit"
        ELSE IF st.max_cost_per_session # 0 /\ u.cost > st.max_cost_per_session
        THEN "cost_limit"
        ELSE "none"

\* snippet[:200].rsplit(" ", 1)[0]
RSplitHead(t) ==
    LET sp == {i \in 1..Len(t) : t[i] = " "}
    IN  IF sp = {} THEN t
        ELSE SubSeq(t, 1, (CHOOSE i \in sp : \A j \in sp : j <= i) - 1)

Snippet(content) ==
    LET s == Strip(content)
    IN  IF Len(s) > SnippetMax
        THEN RSplitHead(SubSeq(s, 1, SnippetMax)) \o <<"~">>
        ELSE s

ToCompressTailTwo(ms) ==
    {i \in 1..Len(ms) : /\ i <= Len(ms) - (TailSize - 1)
                        /\ ms[i].author_type # "system"
                        /\ ms[i].content # <<>>}

\* the messages _compress_history replaces: those outside the last TailSize
\* messages that are not system messages and have content
ToCompress(ms) ==
    {i \in 1..Len(ms) : /\ i <= Len(ms) - TailSize
                        /\ ms[i].author_type # "system"
                        /\ ms[i].content # <<>>}

\* summary_text: the header, then one line "- author: snippet" per compressed
\* message; the header and each "- author: " prefix count as one character
RECURSIVE SummaryParts(_, _, _)
SummaryParts(ms, tc, i) ==
    IF i > Len(ms) THEN <<>>
    ELSE IF i \in tc
         THEN <<"\n", "-">> \o Snippet(ms[i].content) \o SummaryParts(ms, tc, i + 1)
         ELSE SummaryParts(ms, tc, i + 1)

SummaryText(ms, tc) == <<"#">> \o SummaryParts(ms, tc, 1)

\* _compress_history: the transcript after one pass
CompressHistory(ms) ==
    IF Len(ms) = 0 \/ Len(ms) <= 2 THEN ms
    ELSE LET tc == ToCompress(ms)
             summary_text == SummaryText(ms, tc)
         IN  IF tc = {} THEN ms
             ELSE Append([i \in 1..Len(ms) |->
                             IF i \in tc
                             THEN [ms[i] EXCEPT !.content = <<>>,
                                                !.tokens_in = 0,
                                                !.tokens_out = 0]
                             ELSE ms[i]],
                         Message("system", 0, summary_text,
                                 EstimateTokens(summary_text), 0, 0))

\* ------------------------------------------------------------------ Init
\* the pairs (participants, max_rounds) explored
Shapes == {sh \in (1..MaxParticipants) \X (1..MaxRounds) : sh[1] * sh[2] <= MaxTurns}

\* order_index is unique per session; ids may be in either order
OrderIndexes(n) == {[p \in 1..n |-> p - 1], [p \in 1..n |-> n - p]}

\* the limits after _refresh_limits_from_settings (0: unset), and the usage
\* the adapters report with a reply (not reported: estimated by the loop)
NoLimits == [max_session_tokens |-> 0, max_cost_per_session |-> 0,
             context_token_limit |-> 50]
Estimated == [reported |-> FALSE, prompt_tokens |-> 0, completion_tokens |-> 0, cost |-> 0]
Reported == [reported |-> TRUE, prompt_tokens |-> 2, completion_tokens |-> 2, cost |-> 1]
Costly == [Reported EXCEPT !.cost = 2]

Environments ==
    {[settings |-> NoLimits, usage |-> Reported],
     [settings |-> [NoLimits EXCEPT !.max_session_tokens = 5], usage |-> Estimated],
     [settings |-> [NoLimits EXCEPT !.max_cost_per_session = 1], usage |-> Reported],
     [settings |-> [NoLimits EXCEPT !.context_token_limit = 4], usage |-> Estimated],
     [settings |-> [NoLimits EXCEPT !.max_session_tokens = 1], usage |-> Estimated],
     [settings |-> [NoLimits EXCEPT !.max_cost_per_session = 1], usage |-> Costly],
     [settings |-> [NoLimits EXCEPT !.context_token_limit = 0], usage |-> Estimated]}

NoTracker == [repeat |-> 0, last |-> <<>>]

\* no advance_round call was made yet
NoAdvance == [steps |-> 0, outcome |-> "none", before |-> 0, value |-> 0]

\* no worker run was enqueued
NoWorker ==
    [pc |-> "off", status |-> "draft", db_status |-> "draft",
     participants |-> <<>>, pstatus |-> <<>>, round_index |-> 0, idx |-> 0,
     max_rounds |-> 0, stopped |-> "none", late |-> 0]

\* no RoundTableSession was constructed
NoTable ==
    /\ seating = <<>>
    /\ rotation = <<>>
    /\ advanced = 0
    /\ advance_result = NoAdvance

\* nothing was started, stopped, stored or logged yet
InitState ==
    /\ dbStatus = [s \in SessionIds |-> "draft"]
    /\ store = [s \in SessionIds |->
                   [messages |-> <<>>,
                    pstatus |-> [p \in ParticipantIds(1) |-> "active"]]]
    /\ loaded = [r \in Runs |-> 0]
    /\ stop_events = [map |-> [s \in SessionIds |-> 0], events |-> <<>>]
    /\ stopCalls = [s \in SessionIds |-> 0]
    /\ stopPending = [s \in SessionIds |-> 0]
    /\ status = [r \in Runs |-> "draft"]
    /\ current_round = [r \in Runs |-> 0]
    /\ idx = [r \in Runs |-> 0]
    /\ pstatus = [r \in Runs |-> [p \in ParticipantIds(1) |-> "active"]]
    /\ participant_cache = [r \in Runs |-> [p \in ParticipantIds(1) |-> NoTracker]]
    /\ messages = [r \in Runs |-> <<>>]
    /\ stop_requested = [r \in Runs |-> FALSE]
    /\ dialogue_stopped = [r \in Runs |-> FALSE]
    /\ stop_reason = [r \in Runs |-> "none"]
    /\ stop_event = [r \in Runs |-> 0]
    /\ turnLog = [r \in Runs |-> <<>>]
    /\ exit_reason = [r \in Runs |-> "none"]
    /\ final_read = [r \in Runs |-> "none"]
    /\ stop_mark = [r \in Runs |-> -1]
    /\ audit_log = [r \in Runs |-> <<>>]
    /\ stop_audit = [s \in SessionIds |-> <<>>]
    /\ callbacks = [r \in Runs |-> <<>>]
    /\ limit_checks = [r \in Runs |-> <<>>]
    /\ finished_at = [s \in SessionIds |-> 0]

InitCommon ==
    /\ \E sh \in Shapes : \E oi \in OrderIndexes(sh[1]) :
          /\ max_rounds = [s \in SessionIds |-> sh[2]]
          /\ participants = [s \in SessionIds |-> oi]
    /\ \E env \in Environments :
          /\ settings = env.settings
          /\ usage_metadata = env.usage
    /\ InitState

\* two sessions of two participants and one round, and two start_session
\* calls, on the same session or on different ones; stop_session is called
\* for session 1 only
ConcurrentInit ==
    /\ InitCommon
    /\ NoTable
    /\ worker = NoWorker
    /\ max_rounds = [s \in SessionIds |-> 1]
    /\ participants = [s \in SessionIds |-> [p \in 1..2 |-> p - 1]]
    /\ settings = [NoLimits EXCEPT !.context_token_limit = 4]
    /\ usage_metadata = Estimated
    /\ reply_choices = {<<"a">>, <<" ">>}
    /\ stop_budget = [s \in SessionIds |-> IF s = 1 THEN 1 ELSE 0]
    /\ sessions = SessionIds
    /\ users = {1}
    /\ providers = <<>>
    /\ personalities = <<>>
    /\ created = [s \in SessionIds |-> [outcome |-> "none", participants |-> <<>>,
                                         audit |-> <<>>]]
    /\ sid \in {[r \in Runs |-> 1], [r \in Runs |-> r]}
    /\ pc = [r \in Runs |-> "idle"]

NotCreated == [outcome |-> "none", participants |-> <<>>, audit |-> <<>>]

\* one session, started once
Init ==
    /\ InitCommon
    /\ NoTable
    /\ worker = NoWorker
    /\ sessions = {1}
    /\ reply_choices = Replies
    /\ stop_budget = [s \in SessionIds |-> MaxStops]
    /\ users = {1}
    /\ providers = <<>>
    /\ personalities = <<>>
    /\ created = [s \in SessionIds |-> NotCreated]
    /\ sid = [r \in Runs |-> IF r = 1 THEN 1 ELSE 0]
    /\ pc = [r \in Runs |-> IF r = 1 THEN "idle" ELSE "off"]

\* a reply longer than a snippet, with its only space after the first word
LongReply == <<"a", " ">> \o [i \in 1..(SnippetMax - 1) |-> "b"]

\* one session of one participant and three rounds, replies that may be
\* longer than a snippet, and a context budget that the topic, one long
\* reply and one short reply fit in but a second short reply exceeds
CompressInit ==
    /\ max_rounds = [s \in SessionIds |-> 3]
    /\ participants = [s \in SessionIds |-> [p \in 1..1 |-> 0]]
    /\ InitState
    /\ NoTable
    /\ worker = NoWorker
    /\ settings = [NoLimits EXCEPT !.context_token_limit = Len(LongReply) + 3]
    /\ usage_metadata \in {Estimated, Reported}
    /\ reply_choices = {LongReply, <<"a">>, <<"b">>}
    /\ stop_budget = [s \in SessionIds |-> IF s = 1 THEN 1 ELSE 0]
    /\ sessions = {1}
    /\ users = {1}
    /\ providers = <<>>
    /\ personalities = <<>>
    /\ created = [s \in SessionIds |-> NotCreated]
    /\ sid = [r \in Runs |-> IF r = 1 THEN 1 ELSE 0]
    /\ pc = [r \in Runs |-> IF r = 1 THEN "idle" ELSE "off"]

\* --------------------------------------------------------------- helpers
NumParticipants(r) == Cardinality(ParticipantIds(sid[r]))

\* the participant of the current iteration of the for loop
Current(r) == SortedParticipants(sid[r])[idx[r]]

AnyNotRemoved(ps) == \E p \in DOMAIN ps : ps[p] # "removed"

\* line 271: any(p.status == ACTIVE for p in session.participants)
AnyActive(ps) == \E p \in DOMAIN ps : ps[p] = "active"

RemoveAtThree(repeat) == repeat >= RepeatLimit + 1

\* tracker["repeat"] >= 2
RemoveAt(repeat) == repeat >= RepeatLimit

\* _log_action: the audit log of run r after one more row; meta carries the
\* reason and the totals where the call passes them
LogAction(r, action, reason, tokens, cost) ==
    [audit_log EXCEPT ![r] = Append(@, [action |-> action, reason |-> reason,
                                        tokens |-> tokens, cost |-> cost])]

\* `break` out of the for loop with dialogue_stopped set: line 267 leaves the
\* while loop as well
Break(r, reason) ==
    /\ pc' = [pc EXCEPT ![r] = "finalize"]
    /\ dialogue_stopped' = [dialogue_stopped EXCEPT ![r] = TRUE]
    /\ exit_reason' = [exit_reason EXCEPT ![r] = reason]
    /\ UNCHANGED <<idx, current_round>>

ContinueCountIfActive(r, ps) ==
    /\ UNCHANGED dialogue_stopped
    /\ IF idx[r] < NumParticipants(r)
       THEN /\ idx' = [idx EXCEPT ![r] = @ + 1]
            /\ pc' = [pc EXCEPT ![r] = "turn_check"]
            /\ UNCHANGED <<current_round, exit_reason>>
       ELSE /\ UNCHANGED idx
            /\ IF AnyActive(ps)
               THEN /\ current_round' = [current_round EXCEPT ![r] = @ + 1]
                    /\ pc' = [pc EXCEPT ![r] = "round_check"]
                    /\ UNCHANGED exit_reason
               ELSE /\ UNCHANGED current_round
                    /\ pc' = [pc EXCEPT ![r] = "finalize"]
                    /\ exit_reason' = [exit_reason EXCEPT ![r] = "no_active"]

\* `continue`, or the end of the loop body: the next participant, or after the
\* last one lines 267-273 (current_round += 1, leave when nobody is active);
\* ps are the participant statuses after the turn
Continue(r, ps) ==
    /\ UNCHANGED dialogue_stopped
    /\ IF idx[r] < NumParticipants(r)
       THEN /\ idx' = [idx EXCEPT ![r] = @ + 1]
            /\ pc' = [pc EXCEPT ![r] = "turn_check"]
            /\ UNCHANGED <<current_round, exit_reason>>
       ELSE /\ current_round' = [current_round EXCEPT ![r] = @ + 1]
            /\ UNCHANGED idx
            /\ IF AnyActive(ps)
               THEN /\ pc' = [pc EXCEPT ![r] = "round_check"]
                    /\ UNCHANGED exit_reason
               ELSE /\ pc' = [pc EXCEPT ![r] = "finalize"]
                    /\ exit_reason' = [exit_reason EXCEPT ![r] = "no_active"]

\* ----------------------------------------------------------- start_session
\* start_session up to the flush: _load_session (the session with its
\* committed messages and participants), status = running
StartSession(r) ==
    /\ pc[r] = "idle"
    /\ sid[r] \in sessions
    /\ messages' = [messages EXCEPT ![r] = store[sid[r]].messages]
    /\ pstatus' = [pstatus EXCEPT ![r] = store[sid[r]].pstatus]
    /\ loaded' = [loaded EXCEPT ![r] = Len(store[sid[r]].messages)]
    /\ status' = [status EXCEPT ![r] = "running"]
    /\ pc' = [pc EXCEPT ![r] = "starting"]
    /\ UNCHANGED logVars
    /\ UNCHANGED <<cfgVars, dbStatus, store, stop_events, stopVars, current_round,
                   idx, participant_cache, stop_requested,
                   dialogue_stopped, stop_reason, stop_event, histVars>>

\* the flush of status = running, and _ensure_topic_message
FlushRunning(r) ==
    /\ pc[r] = "starting"
    /\ dbStatus' = [dbStatus EXCEPT ![sid[r]] = "running"]
    /\ messages' = [messages EXCEPT ![r] =
          IF \E i \in 1..Len(@) : @[i].author_type = "user" THEN @
          ELSE Append(@, Message("user", 0, <<"T">> \o Topic,
                                 EstimateTokens(Topic), 0, 0))]
    /\ pc' = [pc EXCEPT ![r] = "begin"]
    /\ UNCHANGED logVars
    /\ UNCHANGED <<cfgVars, storeVars, stop_events, stopVars, status, current_round, idx,
                   pstatus, participant_cache, stop_requested,
                   dialogue_stopped, stop_reason, stop_event, histVars>>

\* _get_stop_event, and the head of _run_dialogue
BeginDialogue(r) ==
    /\ pc[r] = "begin"
    /\ stop_events' = GetStopEvent(stop_events, sid[r])
    /\ stop_event' = [stop_event EXCEPT ![r] = stop_events'.map[sid[r]]]
    /\ current_round' = [current_round EXCEPT ![r] = 0]
    /\ stop_requested' = [stop_requested EXCEPT ![r] = FALSE]
    /\ stop_reason' = [stop_reason EXCEPT ![r] = "none"]
    /\ participant_cache' = [participant_cache EXCEPT ![r] =
                                [p \in ParticipantIds(sid[r]) |-> NoTracker]]
    /\ pc' = [pc EXCEPT ![r] = "round_check"]
    /\ audit_log' = LogAction(r, "session_started", "none", 0, 0)
    /\ UNCHANGED <<callbacks, limit_checks, finished_at, stop_audit>>
    /\ UNCHANGED <<cfgVars, storeVars, dbStatus, stopVars, status, idx, pstatus, messages,
                   dialogue_stopped, histVars>>

\* ------------------------------------------------------------ _run_dialogue
RoundsLeftInclusive(round, limit) == round <= limit

\* line 125: the while condition
RoundsLeft(round, limit) == round < limit

\* lines 125-129: the while condition and the signal check before a round
RoundCheck(r) ==
    /\ pc[r] = "round_check"
    /\ IF RoundsLeft(current_round[r], max_rounds[sid[r]])
       THEN IF IsSet(stop_events, stop_event[r])
            THEN /\ stop_requested' = [stop_requested EXCEPT ![r] = TRUE]
                 /\ pc' = [pc EXCEPT ![r] = "finalize"]
                 /\ exit_reason' = [exit_reason EXCEPT ![r] = "signal_before_round"]
            ELSE /\ pc' = [pc EXCEPT ![r] = "round_refresh"]
                 /\ UNCHANGED <<stop_requested, exit_reason>>
       ELSE /\ pc' = [pc EXCEPT ![r] = "finalize"]
            /\ exit_reason' = [exit_reason EXCEPT ![r] = "max_rounds"]
            /\ UNCHANGED stop_requested
    /\ UNCHANGED logVars
    /\ UNCHANGED <<cfgVars, storeVars, dbStatus, stop_events, stopVars, status, current_round,
                   idx, pstatus, participant_cache, messages, dialogue_stopped,
                   stop_reason, stop_event, turnLog, final_read, stop_mark>>

\* lines 130-137: the status re-read before a round, then the for loop starts
RoundRefresh(r) ==
    /\ pc[r] = "round_refresh"
    /\ status' = [status EXCEPT ![r] = dbStatus[sid[r]]]
    /\ IF dbStatus[sid[r]] = "stopped"
       THEN /\ pc' = [pc EXCEPT ![r] = "finalize"]
            /\ exit_reason' = [exit_reason EXCEPT ![r] = "status_before_round"]
            /\ UNCHANGED <<idx, dialogue_stopped>>
       ELSE /\ pc' = [pc EXCEPT ![r] = "turn_check"]
            /\ idx' = [idx EXCEPT ![r] = 1]
            /\ dialogue_stopped' = [dialogue_stopped EXCEPT ![r] = FALSE]
            /\ UNCHANGED exit_reason
    /\ UNCHANGED logVars
    /\ UNCHANGED <<cfgVars, storeVars, dbStatus, stop_events, stopVars, current_round,
                   pstatus, participant_cache, messages, stop_requested,
                   stop_reason, stop_event, turnLog, final_read, stop_mark>>

\* lines 138-141: the signal check before a participant's turn
TurnCheck(r) ==
    /\ pc[r] = "turn_check"
    /\ IF IsSet(stop_events, stop_event[r])
       THEN /\ stop_requested' = [stop_requested EXCEPT ![r] = TRUE]
            /\ Break(r, "signal_before_turn")
       ELSE /\ pc' = [pc EXCEPT ![r] = "turn_refresh"]
            /\ UNCHANGED <<stop_requested, dialogue_stopped, exit_reason, idx,
                           current_round>>
    /\ UNCHANGED logVars
    /\ UNCHANGED <<cfgVars, storeVars, dbStatus, stop_events, stopVars, status, pstatus,
                   participant_cache, messages, stop_reason, stop_event,
                   turnLog, final_read, stop_mark>>

SkippedIfRemoved(st) == st = "removed"

\* line 146: participant.status != ACTIVE
Skipped(st) == st # "active"

\* lines 142-157: the status re-read before a turn, the skip of a participant
\* that is not active, and the start of the generation call
TurnRefresh(r) ==
    /\ pc[r] = "turn_refresh"
    /\ status' = [status EXCEPT ![r] = dbStatus[sid[r]]]
    /\ IF dbStatus[sid[r]] = "stopped"
       THEN Break(r, "status_before_turn")
       ELSE IF Skipped(pstatus[r][Current(r)])
            THEN Continue(r, pstatus[r])
            ELSE /\ pc' = [pc EXCEPT ![r] = "awaiting"]
                 /\ UNCHANGED <<idx, current_round, dialogue_stopped, exit_reason>>
    /\ UNCHANGED logVars
    /\ UNCHANGED <<cfgVars, storeVars, dbStatus, stop_events, stopVars, pstatus,
                   participant_cache, messages, stop_requested, stop_reason,
                   stop_event, turnLog, final_read, stop_mark>>

\* the prompt of _build_prompt, one character long
Prompt == <<"p">>

\* a history entry: the turn of Current(r) in round current_round + 1 ended as
\* kind, with this reply, stored or not, leaving this repeat counter
LogEntry(r, kind, reply, stored, repeat) ==
    [round |-> current_round[r] + 1, pid |-> Current(r), kind |-> kind,
     reply |-> reply, stored |-> stored, repeat |-> repeat]

GenTimeoutNotRequested(r) ==
    /\ pc[r] = "awaiting"
    /\ pstatus' = [pstatus EXCEPT ![r][Current(r)] = "suspended"]
    /\ stop_reason' = [stop_reason EXCEPT ![r] = "timeout"]
    /\ Break(r, "timeout")
    /\ turnLog' = [turnLog EXCEPT ![r] = Append(@, LogEntry(r, "timeout", <<>>, FALSE,
                                      participant_cache[r][Current(r)].repeat))]
    /\ audit_log' = LogAction(r, "turn_timeout", "none", 0, 0)
    /\ UNCHANGED <<callbacks, limit_checks, finished_at, stop_audit>>
    /\ UNCHANGED <<cfgVars, storeVars, dbStatus, stop_events, stopVars, status,
                   participant_cache, messages, stop_requested, stop_event,
                   final_read, stop_mark>>

\* lines 158-171: asyncio.TimeoutError from wait_for
GenTimeout(r) ==
    /\ pc[r] = "awaiting"
    /\ pstatus' = [pstatus EXCEPT ![r][Current(r)] = "suspended"]
    /\ stop_reason' = [stop_reason EXCEPT ![r] = "timeout"]
    /\ stop_requested' = [stop_requested EXCEPT ![r] = TRUE]
    /\ Break(r, "timeout")
    /\ turnLog' = [turnLog EXCEPT ![r] = Append(@, LogEntry(r, "timeout", <<>>, FALSE,
                                      participant_cache[r][Current(r)].repeat))]
    /\ audit_log' = LogAction(r, "turn_timeout", "none", 0, 0)
    /\ UNCHANGED <<callbacks, limit_checks, finished_at, stop_audit>>
    /\ UNCHANGED <<cfgVars, storeVars, dbStatus, stop_events, stopVars, status,
                   participant_cache, messages, stop_event, final_read, stop_mark>>

GenErrorStops(r) ==
    /\ pc[r] = "awaiting"
    /\ pstatus' = [pstatus EXCEPT ![r][Current(r)] = "suspended"]
    /\ Break(r, "error")
    /\ turnLog' = [turnLog EXCEPT ![r] = Append(@, LogEntry(r, "error", <<>>, FALSE,
                                      participant_cache[r][Current(r)].repeat))]
    /\ audit_log' = LogAction(r, "participant_failed", "none", 0, 0)
    /\ UNCHANGED <<callbacks, limit_checks, finished_at, stop_audit>>
    /\ UNCHANGED <<cfgVars, storeVars, dbStatus, stop_events, stopVars, status,
                   participant_cache, messages, stop_requested, stop_reason,
                   stop_event, final_read, stop_mark>>

\* lines 172-176: any other exception of the generation call
GenError(r) ==
    /\ pc[r] = "awaiting"
    /\ pstatus' = [pstatus EXCEPT ![r][Current(r)] = "suspended"]
    /\ Continue(r, pstatus'[r])
    /\ turnLog' = [turnLog EXCEPT ![r] = Append(@, LogEntry(r, "error", <<>>, FALSE,
                                      participant_cache[r][Current(r)].repeat))]
    /\ audit_log' = LogAction(r, "participant_failed", "none", 0, 0)
    /\ UNCHANGED <<callbacks, limit_checks, finished_at, stop_audit>>
    /\ UNCHANGED <<cfgVars, storeVars, dbStatus, stop_events, stopVars, status,
                   participant_cache, messages, stop_requested, stop_reason,
                   stop_event, final_read, stop_mark>>

TrackNoReset(tr, reply) ==
    IF Strip(reply) = <<>>
    THEN [tracker |-> [tr EXCEPT !.repeat = @ + 1],
          removed |-> RemoveAt(tr.repeat + 1), store |-> FALSE]
    ELSE IF tr.last = Strip(reply)
    THEN [tracker |-> [tr EXCEPT !.repeat = @ + 1],
          removed |-> RemoveAt(tr.repeat + 1), store |-> ~RemoveAt(tr.repeat + 1)]
    ELSE [tracker |-> [tr EXCEPT !.last = Strip(reply)],
          removed |-> FALSE, store |-> TRUE]

\* lines 178-195: what the repeat tracker decides for a reply:
\* the tracker afterwards, whether the participant is removed, whether the
\* reply is stored
Track(tr, reply) ==
    IF Strip(reply) = <<>>
    THEN [tracker |-> [tr EXCEPT !.repeat = @ + 1],
          removed |-> RemoveAt(tr.repeat + 1), store |-> FALSE]
    ELSE IF tr.last = Strip(reply)
    THEN [tracker |-> [tr EXCEPT !.repeat = @ + 1],
          removed |-> RemoveAt(tr.repeat + 1), store |-> ~RemoveAt(tr.repeat + 1)]
    ELSE [tracker |-> [repeat |-> 0, last |-> Strip(reply)],
          removed |-> FALSE, store |-> TRUE]

\* lines 197-208: the Message of a stored reply
ReplyMessage(p, reply, md) ==
    Message("model", p, reply,
            IF md.reported THEN md.prompt_tokens ELSE EstimateTokens(Prompt),
            IF md.reported THEN md.completion_tokens ELSE EstimateTokens(reply),
            IF md.reported THEN md.cost ELSE 0)

CallbackRoundZeroBased(r) == current_round[r]

\* line 233: the round number handed to progress_callback
CallbackRound(r) == current_round[r] + 1

\* lines 178-235: the generation call returns a reply; callback is what the
\* progress callback does when the reply is stored
GenReply(r) ==
    /\ pc[r] = "awaiting"
    /\ \E reply \in reply_choices, callback \in {"returns", "raises"} :
        LET p == Current(r)
            t == Track(participant_cache[r][p], reply)
        IN  /\ participant_cache' = [participant_cache EXCEPT ![r][p] = t.tracker]
            /\ pstatus' = [pstatus EXCEPT ![r][p] = IF t.removed THEN "removed" ELSE @]
            /\ turnLog' = [turnLog EXCEPT ![r] =
                              Append(@, LogEntry(r, "reply", reply, t.store,
                                                 t.tracker.repeat))]
            /\ audit_log' = IF t.store
                            THEN LogAction(r, "message_posted", "none", 0, 0)
                            ELSE IF t.removed
                            THEN LogAction(r, "participant_removed", "none", 0, 0)
                            ELSE audit_log
            /\ callbacks' = IF t.store
                            THEN [callbacks EXCEPT ![r] =
                                     Append(@, [message |-> ReplyMessage(p, reply, usage_metadata),
                                                round |-> CallbackRound(r),
                                                stored |-> Len(messages[r]) + 1])]
                            ELSE callbacks
            /\ UNCHANGED <<limit_checks, finished_at, stop_audit>>
            /\ IF t.store
               THEN /\ messages' = [messages EXCEPT ![r] =
                                       Append(@, ReplyMessage(p, reply, usage_metadata))]
                    /\ pc' = [pc EXCEPT ![r] =
                                 IF callback = "raises" THEN "raised" ELSE "post_store"]
                    /\ UNCHANGED <<idx, current_round, dialogue_stopped, exit_reason>>
               ELSE /\ callback = "returns"
                    /\ UNCHANGED messages
                    /\ Continue(r, pstatus'[r])
    /\ UNCHANGED <<cfgVars, storeVars, dbStatus, stop_events, stopVars, status,
                   stop_requested, stop_reason, stop_event, final_read, stop_mark>>

\* lines 237-238: one pass of the compression loop
CompressStep(r) ==
    /\ pc[r] = "post_store"
    /\ ContextExceedsLimit(messages[r], settings.context_token_limit)
    /\ messages' = [messages EXCEPT ![r] = CompressHistory(@)]
    /\ audit_log' = IF CompressHistory(messages[r]) # messages[r]
                    THEN LogAction(r, "history_compressed", "none", 0, 0)
                    ELSE audit_log
    /\ UNCHANGED <<callbacks, limit_checks, finished_at, stop_audit>>
    /\ UNCHANGED <<cfgVars, storeVars, dbStatus, stop_events, stopVars, pc, status,
                   current_round, idx, pstatus, participant_cache,
                   stop_requested, dialogue_stopped, stop_reason, stop_event,
                   histVars>>

\* lines 240-258: the limit check once the compression loop has ended
CheckLimits(r) ==
    /\ pc[r] = "post_store"
    /\ ~ContextExceedsLimit(messages[r], settings.context_token_limit)
    /\ LET limit_reason == CheckUsageLimits(messages[r], settings)
       IN  IF limit_reason # "none"
           THEN /\ audit_log' = LogAction(r, "usage_limit_reached", limit_reason,
                                           CalculateUsage(messages[r]).tokens,
                                           CalculateUsage(messages[r]).cost)
                /\ stop_reason' = [stop_reason EXCEPT ![r] = limit_reason]
                /\ stop_requested' = [stop_requested EXCEPT ![r] = TRUE]
                /\ status' = [status EXCEPT ![r] = "stopped"]
                /\ finished_at' = [finished_at EXCEPT ![sid[r]] = @ + 1]
                /\ Break(r, "limit")
           ELSE /\ pc' = [pc EXCEPT ![r] = "post_refresh"]
                /\ UNCHANGED <<stop_reason, stop_requested, status, idx,
                               current_round, dialogue_stopped, exit_reason,
                               audit_log, finished_at>>
    /\ limit_checks' = [limit_checks EXCEPT ![r] =
                           Append(@, [tokens |-> CalculateUsage(messages[r]).tokens,
                                      cost |-> CalculateUsage(messages[r]).cost,
                                      result |-> CheckUsageLimits(messages[r], settings)])]
    /\ UNCHANGED <<callbacks, stop_audit>>
    /\ UNCHANGED <<cfgVars, storeVars, dbStatus, stop_events, stopVars, pstatus,
                   participant_cache, messages, stop_event, turnLog,
                   final_read, stop_mark>>

\* lines 260-265: the status re-read and the stop check after a stored turn
PostRefresh(r) ==
    /\ pc[r] = "post_refresh"
    /\ status' = [status EXCEPT ![r] = dbStatus[sid[r]]]
    /\ IF IsSet(stop_events, stop_event[r])
       THEN /\ stop_requested' = [stop_requested EXCEPT ![r] = TRUE]
            /\ Break(r, "signal_after_turn")
       ELSE /\ UNCHANGED stop_requested
            /\ IF dbStatus[sid[r]] = "stopped"
               THEN Break(r, "status_after_turn")
               ELSE Continue(r, pstatus[r])
    /\ UNCHANGED logVars
    /\ UNCHANGED <<cfgVars, storeVars, dbStatus, stop_events, stopVars, pstatus,
                   participant_cache, messages, stop_reason, stop_event,
                   turnLog, final_read, stop_mark>>

FinishedUnlessReadStopped(read, requested) == read # "stopped"

\* line 277: does the run end finished, given the status re-read at line 275?
EndsFinished(read, requested) == read # "stopped" /\ ~requested

FinalStatusKeepsRead(read, requested) ==
    IF EndsFinished(read, requested) THEN "finished" ELSE read

\* lines 277-286: the status the run ends with
FinalStatus(read, requested) ==
    IF EndsFinished(read, requested) THEN "finished" ELSE "stopped"

\* lines 275-295: the terminal status, and _clear_stop_event.  The finished
\* branch and a stop with a stop_reason flush through _log_action; otherwise
\* the status is written by the caller's commit.
Finalize(r) ==
    /\ pc[r] = "finalize"
    /\ LET read == dbStatus[sid[r]]
           final == FinalStatus(read, stop_requested[r])
       IN  /\ final_read' = [final_read EXCEPT ![r] = read]
           /\ status' = [status EXCEPT ![r] = final]
           /\ dbStatus' = IF final = "finished" \/ stop_reason[r] # "none"
                          THEN [dbStatus EXCEPT ![sid[r]] = final]
                          ELSE dbStatus
    /\ stop_events' = ClearStopEvent(stop_events, sid[r])
    /\ pc' = [pc EXCEPT ![r] = "returned"]
    /\ audit_log' = IF EndsFinished(dbStatus[sid[r]], stop_requested[r])
                    THEN LogAction(r, "session_finished", "none", 0, 0)
                    ELSE IF stop_reason[r] # "none"
                    THEN LogAction(r, "session_stopped", stop_reason[r], 0, 0)
                    ELSE audit_log
    /\ finished_at' = [finished_at EXCEPT ![sid[r]] = @ + 1]
    /\ UNCHANGED <<callbacks, limit_checks, stop_audit>>
    /\ UNCHANGED <<cfgVars, storeVars, stopVars, current_round, idx, pstatus,
                   participant_cache, messages, stop_requested,
                   dialogue_stopped, stop_reason, stop_event, turnLog,
                   exit_reason, stop_mark>>

\* start_session has returned; its caller commits the transaction: the rows
\* the run added follow the rows committed meanwhile, and the rows it loaded
\* are written back as the run left them
Commit(r) ==
    /\ pc[r] = "returned"
    /\ dbStatus' = [dbStatus EXCEPT ![sid[r]] = status[r]]
    /\ store' = [store EXCEPT ![sid[r]] =
          [messages |-> (IF Len(@.messages) = loaded[r]
                         THEN SubSeq(messages[r], 1, loaded[r])
                         ELSE @.messages)
                        \o SubSeq(messages[r], loaded[r] + 1, Len(messages[r])),
           pstatus |-> pstatus[r]]]
    /\ UNCHANGED loaded
    /\ pc' = [pc EXCEPT ![r] = "done"]
    /\ UNCHANGED logVars
    /\ UNCHANGED <<cfgVars, stop_events, stopVars, loopVars, histVars>>

\* ------------------------------------------------------------ stop_session
\* stop_session up to its flush: load the session, _trigger_stop
StopSession(s) ==
    /\ s \in sessions
    /\ stopCalls[s] < stop_budget[s]
    /\ stop_events' = TriggerStop(stop_events, s)
    /\ stopCalls' = [stopCalls EXCEPT ![s] = @ + 1]
    /\ stopPending' = [stopPending EXCEPT ![s] = @ + 1]
    /\ stop_mark' = [r \in Runs |->
          IF sid[r] = s /\ pc[r] = "awaiting" /\ stop_mark[r] = -1
          THEN Len(ModelMessages(messages[r])) ELSE stop_mark[r]]
    /\ UNCHANGED logVars
    /\ UNCHANGED <<cfgVars, storeVars, dbStatus, pc, loopVars, turnLog, exit_reason, final_read>>

\* the rest of a stop_session call: the flush of status = stopped and of
\* finished_at, then the session_stopped audit row, which records the
\* persisted status it was written under
StopFlush(s) ==
    /\ s \in sessions
    /\ stopPending[s] > 0
    /\ dbStatus' = [dbStatus EXCEPT ![s] = "stopped"]
    /\ stopPending' = [stopPending EXCEPT ![s] = @ - 1]
    /\ finished_at' = [finished_at EXCEPT ![s] = @ + 1]
    /\ stop_audit' = [stop_audit EXCEPT ![s] =
          Append(@, [action |-> "session_stopped", reason |-> "user",
                     persisted |-> dbStatus'[s]])]
    /\ UNCHANGED <<audit_log, callbacks, limit_checks>>
    /\ UNCHANGED <<cfgVars, storeVars, stop_events, stopCalls, pc, loopVars, histVars>>

\* ---------------------------------------------------------- create_session
\* _attach_default_participants: the SessionParticipant rows added
AttachDefaultParticipants(prov, pers) ==
    IF prov = <<>> \/ pers = <<>> THEN <<>>
    ELSE [index \in 1..Len(prov) |->
             [provider_id |-> prov[index],
              personality_id |-> pers[((index - 1) % Len(pers)) + 1],
              order_index |-> index - 1]]

\* create_session(user_id, topic, max_rounds) allocating session id s;
\* arg is the max_rounds argument (0: None)
CreateSession(s, user_id, arg) ==
    /\ s \notin sessions
    /\ created[s].outcome = "none"
    /\ IF user_id \notin users
       THEN /\ created' = [created EXCEPT ![s].outcome = "ValueError"]
            /\ UNCHANGED <<sessions, max_rounds, dbStatus>>
       ELSE /\ sessions' = sessions \cup {s}
            /\ max_rounds' = [max_rounds EXCEPT ![s] =
                                 IF arg # 0 THEN arg ELSE DefaultMaxRounds]
            /\ dbStatus' = [dbStatus EXCEPT ![s] = "draft"]
            /\ created' = [created EXCEPT ![s] =
                  [outcome |-> "created",
                   participants |-> AttachDefaultParticipants(providers, personalities),
                   audit |-> <<"session_created">>]]
    /\ UNCHANGED <<storeVars, users, providers, personalities, sid, participants,
                   settings, usage_metadata, reply_choices, stop_budget, tableVars, worker, stop_events, stopVars, pc, loopVars, histVars,
                   logVars>>

\* the stores create_session may find: enabled providers in order_index
\* order (ids ascending or descending), personalities by id
CreateInit ==
    /\ InitCommon
    /\ NoTable
    /\ worker = NoWorker
    /\ max_rounds = [s \in SessionIds |-> 1]
    /\ participants = [s \in SessionIds |-> [p \in 1..1 |-> 0]]
    /\ settings = NoLimits
    /\ usage_metadata = Reported
    /\ reply_choices = Replies
    /\ stop_budget = [s \in SessionIds |-> MaxStops]
    /\ sessions = {}
    /\ users = {1}
    /\ \E n \in 0..MaxProviders :
          providers \in {[i \in 1..n |-> i], [i \in 1..n |-> n + 1 - i]}
    /\ \E n \in 0..MaxPersonas : personalities = [i \in 1..n |-> i]
    /\ created = [s \in SessionIds |-> NotCreated]
    /\ sid = [r \in Runs |-> 0]
    /\ pc = [r \in Runs |-> "off"]

CreateNext ==
    \E s \in SessionIds : \E user_id \in {1, 2} : \E arg \in 0..MaxRounds :
        CreateSession(s, user_id, arg)

CreateSpec == CreateInit /\ [][CreateNext]_vars

\* ------------------------------------------------------- RoundTableSession
RECURSIVE Rotate(_, _)
RotateOnce(d, n) ==
    IF d = <<>> \/ n = 0 THEN d
    ELSE IF n > 0 THEN <<d[Len(d)]>> \o SubSeq(d, 1, Len(d) - 1)
    ELSE Tail(d) \o <<Head(d)>>

\* deque.rotate(n): n steps to the right, to the left for negative n
Rotate(d, n) ==
    IF d = <<>> \/ n = 0 THEN d
    ELSE IF n > 0 THEN Rotate(<<d[Len(d)]>> \o SubSeq(d, 1, Len(d) - 1), n - 1)
    ELSE Rotate(Tail(d) \o <<Head(d)>>, n + 1)

\* current_moderator
CurrentModerator == rotation[1]

\* advance_round(steps)
AdvanceRound(steps) ==
    /\ rotation # <<>>
    /\ advanced + (IF steps > 0 THEN steps ELSE 0) <= MaxAdvance
    /\ IF steps < 0
       THEN /\ advance_result' = [steps |-> steps, outcome |-> "ValidationError",
                                  before |-> CurrentModerator, value |-> 0]
            /\ UNCHANGED <<rotation, advanced>>
       ELSE /\ rotation' = Rotate(rotation, -steps)
            /\ advanced' = advanced + steps
            /\ advance_result' = [steps |-> steps, outcome |-> "returned",
                                  before |-> CurrentModerator,
                                  value |-> rotation'[1]]
    /\ UNCHANGED <<seating, worker>>
    /\ UNCHANGED <<sessions, users, providers, personalities, created, sid,
                   max_rounds, participants, settings, usage_metadata,
                   reply_choices, stop_budget, dbStatus, storeVars, stop_events,
                   stopVars, pc, loopVars, histVars, logVars>>

\* the sequences of n different names out of 1..MaxSeats
Seatings(n) ==
    {q \in [1..n -> 1..MaxSeats] : \A i, j \in 1..n : q[i] = q[j] => i = j}

\* a RoundTableSession constructed from one to MaxSeats participants with
\* different names: arrange_seating keeps their order, _rotation starts as
\* a copy of it
TableInit ==
    /\ InitCommon
    /\ max_rounds = [s \in SessionIds |-> 1]
    /\ participants = [s \in SessionIds |-> [p \in 1..1 |-> 0]]
    /\ settings = NoLimits
    /\ usage_metadata = Reported
    /\ reply_choices = Replies
    /\ stop_budget = [s \in SessionIds |-> MaxStops]
    /\ sessions = {}
    /\ users = {1}
    /\ providers = <<>>
    /\ personalities = <<>>
    /\ created = [s \in SessionIds |-> NotCreated]
    /\ sid = [r \in Runs |-> 0]
    /\ pc = [r \in Runs |-> "off"]
    /\ \E n \in 1..MaxSeats : seating \in Seatings(n)
    /\ rotation = seating
    /\ advanced = 0
    /\ advance_result = NoAdvance
    /\ worker = NoWorker

TableNext == \E steps \in -1..MaxSteps : AdvanceRound(steps)

TableSpec == TableInit /\ [][TableNext]_vars

\* -------------------------------------- worker variant (orchestrator/engine)
\* everything but the worker's state
notWorker == <<sessions, users, providers, personalities, created, sid, max_rounds,
               participants, settings, usage_metadata, reply_choices, stop_budget,
               tableVars, dbStatus, storeVars, stop_events, stopVars, pc, loopVars,
               histVars, logVars>>

\* the participants of ps whose status is ACTIVE, in order
ActiveOnly(ps, st) == SelectSeq(ps, LAMBDA p : st[p] = "active")

\* run, lines 34-36: status RUNNING, the deque of active participants,
\* round_index
RunBegin ==
    /\ worker.pc = "idle"
    /\ worker' = [worker EXCEPT
                     !.status = "running",
                     !.participants = ActiveOnly([p \in DOMAIN worker.pstatus |-> p],
                                                 worker.pstatus),
                     !.round_index = 0,
                     !.pc = "while"]
    /\ UNCHANGED notWorker

\* lines 38-41: the while condition and the head of a round
RunWhile ==
    /\ worker.pc = "while"
    /\ worker' = IF worker.participants # <<>> /\ worker.round_index < worker.max_rounds
                 THEN [worker EXCEPT !.round_index = @ + 1, !.idx = 1, !.pc = "for"]
                 ELSE [worker EXCEPT !.pc = "final"]
    /\ UNCHANGED notWorker

\* lines 42-51: one iteration of the for loop; outcome is what the registry
\* and the provider do for the participant
RunTurn(outcome) ==
    /\ worker.pc = "for"
    /\ worker.idx <= Len(worker.participants)
    /\ LET p == worker.participants[worker.idx]
       IN  worker' =
             IF worker.pstatus[p] # "active"
             THEN [worker EXCEPT !.idx = @ + 1]
             ELSE IF outcome = "unregistered"
             THEN [worker EXCEPT !.idx = @ + 1, !.pstatus[p] = "excluded"]
             ELSE [worker EXCEPT
                     !.idx = @ + 1,
                     !.pstatus[p] = IF outcome = "reply" THEN @ ELSE "excluded",
                     !.late = IF worker.stopped # "none" THEN @ + 1 ELSE @]
    /\ UNCHANGED notWorker

\* lines 52-56: the end of a round
RunRoundEnd ==
    /\ worker.pc = "for"
    /\ worker.idx > Len(worker.participants)
    /\ LET left == ActiveOnly(worker.participants, worker.pstatus)
       IN  worker' = [worker EXCEPT
                        !.participants = left,
                        !.pc = IF left = <<>> THEN "final" ELSE "while"]
    /\ UNCHANGED notWorker

\* lines 57-58: final_status
RunFinal ==
    /\ worker.pc = "final"
    /\ worker' = [worker EXCEPT
                     !.status = IF worker.participants # <<>> THEN "finished"
                                ELSE "stopped",
                     !.pc = "returned"]
    /\ UNCHANGED notWorker

\* _run_orchestration, line 61: the commit after run
RunCommit ==
    /\ worker.pc = "returned"
    /\ worker' = [worker EXCEPT !.db_status = worker.status, !.pc = "committed"]
    /\ UNCHANGED notWorker

\* api_stop_session: status STOPPED, committed; stopped records where run was
ApiStopSession ==
    /\ worker.pc # "off"
    /\ worker.stopped = "none"
    /\ worker' = [worker EXCEPT !.db_status = "stopped", !.stopped = worker.pc]
    /\ UNCHANGED notWorker

\* a session that api_start_session has set running and enqueued, with one
\* to MaxParticipants active participants
WorkerInit ==
    /\ InitCommon
    /\ NoTable
    /\ max_rounds = [s \in SessionIds |-> 1]
    /\ participants = [s \in SessionIds |-> [p \in 1..1 |-> 0]]
    /\ settings = NoLimits
    /\ usage_metadata = Reported
    /\ reply_choices = Replies
    /\ stop_budget = [s \in SessionIds |-> MaxStops]
    /\ sessions = {}
    /\ users = {1}
    /\ providers = <<>>
    /\ personalities = <<>>
    /\ created = [s \in SessionIds |-> NotCreated]
    /\ sid = [r \in Runs |-> 0]
    /\ pc = [r \in Runs |-> "off"]
    /\ \E n \in 1..MaxParticipants : \E m \in 1..MaxRounds :
          worker = [NoWorker EXCEPT !.pc = "idle", !.status = "running",
                                    !.db_status = "running",
                                    !.pstatus = [p \in 1..n |-> "active"],
                                    !.max_rounds = m]

WorkerNext ==
    \/ RunBegin
    \/ RunWhile
    \/ \E outcome \in {"reply", "empty", "error", "unregistered"} : RunTurn(outcome)
    \/ RunRoundEnd
    \/ RunFinal
    \/ RunCommit
    \/ ApiStopSession

WorkerSpec == WorkerInit /\ [][WorkerNext]_vars

\* -------------------------------------------------------- specifications
RunStep(r) ==
    \/ StartSession(r)
    \/ FlushRunning(r)
    \/ BeginDialogue(r)
    \/ RoundCheck(r)
    \/ RoundRefresh(r)
    \/ TurnCheck(r)
    \/ TurnRefresh(r)
    \/ GenTimeout(r)
    \/ GenError(r)
    \/ GenReply(r)
    \/ CompressStep(r)
    \/ CheckLimits(r)
    \/ PostRefresh(r)
    \/ Finalize(r)
    \/ Commit(r)

Next ==
    \/ \E r \in Runs : StartSession(r)
    \/ \E r \in Runs : FlushRunning(r)
    \/ \E r \in Runs : BeginDialogue(r)
    \/ \E r \in Runs : RoundCheck(r)
    \/ \E r \in Runs : RoundRefresh(r)
    \/ \E r \in Runs : TurnCheck(r)
    \/ \E r \in Runs : TurnRefresh(r)
    \/ \E r \in Runs : GenTimeout(r)
    \/ \E r \in Runs : GenError(r)
    \/ \E r \in Runs : GenReply(r)
    \/ \E r \in Runs : CompressStep(r)
    \/ \E r \in Runs : CheckLimits(r)
    \/ \E r \in Runs : PostRefresh(r)
    \/ \E r \in Runs : Finalize(r)
    \/ \E r \in Runs : Commit(r)
    \/ \E s \in SessionIds : StopSession(s)
    \/ \E s \in SessionIds : StopFlush(s)

Spec == Init /\ [][Next]_vars

ConcurrentSpec == ConcurrentInit /\ [][Next]_vars

CompressSpec == CompressInit /\ [][Next]_vars

TypeOK ==
    /\ \A r \in Runs : pc[r] \in {"off", "idle", "starting", "begin", "round_check",
                                  "round_refresh", "turn_check", "turn_refresh",
                                  "awaiting", "post_store", "post_refresh",
                                  "finalize", "returned", "done", "raised"}
    /\ \A s \in SessionIds : dbStatus[s] \in Statuses

\* the runs take their steps, and a flush that was started completes
LiveSpec ==
    /\ Spec
    /\ \A r \in Runs : WF_vars(RunStep(r))
    /\ \A s \in SessionIds : WF_vars(StopFlush(s))

\* ------------------------------------------------------------ properties
Returned(r) == pc[r] \in {"returned", "done"}

\* the turns of participant p in run r, in the order taken
TurnsOf(r, p) == SelectSeq(turnLog[r], LAMBDA e : e.pid = p)

StoredTurns(r) == SelectSeq(turnLog[r], LAMBDA e : e.stored)

\* the reply of the turn is empty or whitespace only
IsEmptyReply(e) ==
    e.kind = "reply" /\ \A i \in 1..Len(e.reply) : e.reply[i] = " "

\* a reply with text, different (surrounding whitespace aside) from the
\* participant's previous reply
FreshTurns(r) ==
    \A i \in 1..Len(turnLog[r]) :
        LET e == turnLog[r][i]
        IN  /\ e.kind = "reply"
            /\ Strip(e.reply) # <<>>
            /\ \A j \in 1..(i - 1) :
                  (/\ turnLog[r][j].pid = e.pid
                   /\ \A k \in (j + 1)..(i - 1) : turnLog[r][k].pid # e.pid)
                  => Strip(turnLog[r][j].reply) # Strip(e.reply)

NoSystemMessage(r) ==
    \A i \in 1..Len(messages[r]) : messages[r][i].author_type # "system"

\* the scenario of C1: every call returns fresh text, no stop is requested,
\* no token, cost or context limit is exceeded
Nominal(r) ==
    /\ FreshTurns(r)
    /\ stopCalls[sid[r]] = 0
    /\ exit_reason[r] # "limit"
    /\ NoSystemMessage(r)

\* a is in ascending order_index within each block of n authors
RoundRobin(a, s, n) ==
    \A i, j \in 1..Len(a) :
        (i < j /\ (i - 1) \div n = (j - 1) \div n)
        => participants[s][a[i]] < participants[s][a[j]]

\* C1: a run in which every generation call returns fresh text, no limit is
\* exceeded and no stop is requested ends finished with current_round =
\* max_rounds and N * max_rounds model messages, their authors in ascending
\* order_index, repeated max_rounds times.
C1_NominalRunFinishes ==
    \A r \in Runs :
        (Returned(r) /\ Nominal(r))
        => LET s == sid[r]
               n == Cardinality(ParticipantIds(s))
               a == Authors(ModelMessages(messages[r]))
           IN  /\ status[r] = "finished"
               /\ current_round[r] = max_rounds[s]
               /\ Len(a) = n * max_rounds[s]
               /\ RoundRobin(a, s, n)

C1_Witness ==
    \E r \in Runs :
        /\ Returned(r) /\ Nominal(r)
        /\ Cardinality(ParticipantIds(sid[r])) = 2
        /\ max_rounds[sid[r]] = 2
        /\ participants[sid[r]][1] > participants[sid[r]][2]
        /\ Len(ModelMessages(messages[r])) = 4

\* (round, order_index) of a history entry comes before that of another
Before(s, e1, e2) ==
    \/ e1.round < e2.round
    \/ e1.round = e2.round /\ participants[s][e1.pid] < participants[s][e2.pid]

\* C2: in every state of a run the model messages are the stored turns taken
\* so far, in the order taken; the turns are in strictly increasing
\* (round, order_index) order, so a participant has at most one turn per round
\* and a round's messages precede those of the next round.
C2_TranscriptFollowsTurns ==
    \A r \in Runs :
        /\ Authors(ModelMessages(messages[r]))
              = [i \in 1..Len(StoredTurns(r)) |-> StoredTurns(r)[i].pid]
        /\ \A i, j \in 1..Len(turnLog[r]) :
              i < j => Before(sid[r], turnLog[r][i], turnLog[r][j])

C2_Witness ==
    \E r \in Runs :
        LET st == StoredTurns(r)
        IN  /\ Len(st) >= 3
            /\ st[1].round = 1 /\ st[2].round = 1 /\ st[3].round = 2
            /\ participants[sid[r]][1] > participants[sid[r]][2]

\* C3: when stop_session was called while the run awaited a generation call,
\* the run returns with status stopped, and at most the in-flight turn's model
\* message is appended after the call.
C3_StopDuringTurn ==
    \A r \in Runs :
        stop_mark[r] >= 0
        => /\ Len(ModelMessages(messages[r])) <= stop_mark[r] + 1
           /\ Returned(r) => status[r] = "stopped"

\* C4: once a stop request has been issued for the session, the loop starts
\* no generation call.
C4_NoTurnStartsAfterStop ==
    [][\A r \in Runs :
          (pc[r] # "awaiting" /\ pc'[r] = "awaiting")
          => stopCalls[sid[r]] = 0]_vars

SignalExits == {"signal_before_round", "signal_before_turn", "signal_after_turn"}
StatusExits == {"status_before_round", "status_before_turn", "status_after_turn"}
StopExits == SignalExits \cup StatusExits \cup {"limit", "timeout"}
FinishExits == {"max_rounds", "no_active"}

\* C5 as stated: a returned run is stopped if the loop was left on a stop
\* signal, a limit or a timeout, and finished if it was left because
\* current_round reached max_rounds or nobody was active.
C5_StatusByExit ==
    \A r \in Runs :
        Returned(r)
        => /\ status[r] \in {"finished", "stopped"}
           /\ exit_reason[r] \in StopExits => status[r] = "stopped"
           /\ exit_reason[r] \in FinishExits => status[r] = "finished"

\* C5 as amended: a loop left on the cancellation signal, a limit or a
\* timeout ends stopped; a loop left otherwise (persisted status seen stopped,
\* max_rounds reached, nobody active) ends stopped when the status re-read
\* after the loop is stopped, and finished when it is not.
C5_StatusByExitAndLastRead ==
    \A r \in Runs :
        Returned(r)
        => /\ status[r] \in {"finished", "stopped"}
           /\ exit_reason[r] \in StopExits \cup FinishExits
           /\ exit_reason[r] \in SignalExits \cup {"limit", "timeout"}
                 => status[r] = "stopped"
           /\ exit_reason[r] \in StatusExits \cup FinishExits
                 => (status[r] = "finished" <=> final_read[r] # "stopped")

C5_Witness ==
    \E r \in Runs :
        /\ Returned(r)
        /\ exit_reason[r] = "max_rounds"
        /\ final_read[r] = "stopped"
        /\ status[r] = "stopped"
        /\ Len(ModelMessages(messages[r])) >= 1

\* C6: a persisted status finished, stopped or failed never changes.
C6_TerminalStatusIsFinal ==
    [][\A s \in SessionIds :
          dbStatus[s] \in Terminal => dbStatus'[s] = dbStatus[s]]_vars

\* C7: every stop_session call on an existing session, the second like the
\* first, is possible (raises nothing), leaves the session's signal in the
\* registry set, and its flush leaves the persisted status stopped.
C7_StopIsIdempotent ==
    /\ [](\A s \in sessions : stopCalls[s] < MaxStops => ENABLED StopSession(s))
    /\ [][\A s \in sessions :
             /\ stopCalls'[s] # stopCalls[s]
                   => /\ stop_events'.map[s] # 0
                      /\ stop_events'.events[stop_events'.map[s]]
             /\ stopPending'[s] < stopPending[s] => dbStatus'[s] = "stopped"]_vars

C7_Witness ==
    \E s \in sessions :
        /\ stopCalls[s] = 2
        /\ stopPending[s] = 0
        /\ dbStatus[s] = "stopped"
        /\ IsSet(stop_events, stop_events.map[s])
        /\ \E r \in Runs : sid[r] = s /\ pc[r] = "awaiting"

\* both turns returned the same text (surrounding whitespace aside), and it
\* is not empty
SameText(e1, e2) ==
    /\ e1.kind = "reply" /\ e2.kind = "reply"
    /\ Strip(e1.reply) = Strip(e2.reply)
    /\ Strip(e1.reply) # <<>>

\* no generation call is in flight for a participant that is not active
OnlyActiveInvoked ==
    \A r \in Runs : pc[r] = "awaiting" => pstatus[r][Current(r)] = "active"

\* C8 as stated: after two consecutive turns with the same text the
\* participant is removed and has no further turn.
C8_RemovedAfterTwoSame ==
    \A r \in Runs : \A p \in ParticipantIds(1) :
        LET t == TurnsOf(r, p)
        IN  \A k \in 1..(Len(t) - 1) :
                SameText(t[k], t[k + 1])
                => Len(t) = k + 1 /\ pstatus[r][p] = "removed"

\* C8 as amended: after three consecutive turns with the same text the
\* participant is removed and has no further turn; the second of two turns
\* with the same text is stored and leaves the participant active when the
\* first of them was not itself a repeat.
C8_RemovedAfterThreeSame ==
    /\ OnlyActiveInvoked
    /\ \A r \in Runs : \A p \in ParticipantIds(1) :
          LET t == TurnsOf(r, p)
          IN  /\ \A k \in 1..(Len(t) - 2) :
                    (SameText(t[k], t[k + 1]) /\ SameText(t[k + 1], t[k + 2]))
                    => /\ Len(t) = k + 2
                       /\ ~t[k + 2].stored
                       /\ pstatus[r][p] = "removed"
              /\ \A k \in 1..(Len(t) - 1) :
                    (SameText(t[k], t[k + 1]) /\ t[k].repeat = 0)
                    => /\ t[k + 1].stored
                       /\ Len(t) = k + 1 => pstatus[r][p] = "active"

C8_Witness ==
    \E r \in Runs : \E p \in ParticipantIds(1) :
        LET t == TurnsOf(r, p)
        IN  /\ Len(t) = 3
            /\ SameText(t[1], t[2]) /\ SameText(t[2], t[3])
            /\ t[2].stored
            /\ pstatus[r][p] = "removed"
            /\ Returned(r)

\* C9 as stated: an empty reply that does not follow an empty reply leaves
\* the participant active and stores nothing; the second of two consecutive
\* empty replies removes it, and it has no further turn.
C9_EmptyReplies ==
    \A r \in Runs : \A p \in ParticipantIds(1) :
        LET t == TurnsOf(r, p)
        IN  \A k \in 1..Len(t) :
                IsEmptyReply(t[k])
                => /\ ~t[k].stored
                   /\ (k = 1 \/ ~IsEmptyReply(t[k - 1]))
                         => (k = Len(t) => pstatus[r][p] = "active")
                   /\ (k > 1 /\ IsEmptyReply(t[k - 1]))
                         => (Len(t) = k /\ pstatus[r][p] = "removed")

\* C9 as amended: the empty reply leaves the participant active when its
\* repeat counter was 0 before the turn.
C9_EmptyRepliesByCounter ==
    /\ OnlyActiveInvoked
    /\ \A r \in Runs : \A p \in ParticipantIds(1) :
          LET t == TurnsOf(r, p)
          IN  \A k \in 1..Len(t) :
                  IsEmptyReply(t[k])
                  => /\ ~t[k].stored
                     /\ (k = 1 \/ t[k - 1].repeat = 0)
                           => (k = Len(t) => pstatus[r][p] = "active")
                     /\ (k > 1 /\ IsEmptyReply(t[k - 1]))
                           => (Len(t) = k /\ pstatus[r][p] = "removed")

C9_Witness ==
    \E r \in Runs : \E p \in ParticipantIds(1) :
        LET t == TurnsOf(r, p)
        IN  /\ Len(t) = 3
            /\ ~IsEmptyReply(t[1]) /\ t[1].kind = "reply"
            /\ IsEmptyReply(t[2]) /\ IsEmptyReply(t[3])
            /\ pstatus[r][p] = "removed"
            /\ Len(ModelMessages(messages[r])) = 1

\* C10: a generation call that raises an error other than a timeout suspends
\* its participant and leaves the transcript as it was; the loop goes on to
\* the next turn or round while a participant is active; the suspended
\* participant has no further turn.
C10_ErrorSuspends ==
    /\ [](OnlyActiveInvoked)
    /\ [](\A r \in Runs : \A p \in ParticipantIds(1) :
             LET t == TurnsOf(r, p)
             IN  \A k \in 1..Len(t) :
                     t[k].kind = "error"
                     => Len(t) = k /\ pstatus[r][p] = "suspended")
    /\ [][\A r \in Runs :
             (/\ Len(turnLog'[r]) = Len(turnLog[r]) + 1
              /\ turnLog'[r][Len(turnLog'[r])].kind = "error")
             => /\ messages'[r] = messages[r]
                /\ stop_requested'[r] = stop_requested[r]
                /\ dialogue_stopped'[r] = dialogue_stopped[r]
                /\ \/ pc'[r] \in {"turn_check", "round_check"}
                   \/ /\ ~AnyActive(pstatus'[r])
                      /\ pc'[r] = "finalize"
                      /\ exit_reason'[r] = "no_active"]_vars

C10_Witness ==
    \E r \in Runs :
        /\ Len(turnLog[r]) >= 3
        /\ turnLog[r][1].kind = "error"
        /\ turnLog[r][2].stored
        /\ turnLog[r][3].stored
        /\ turnLog[r][3].round = 2
        /\ pstatus[r][turnLog[r][1].pid] = "suspended"
        /\ Len(ModelMessages(messages[r])) = 2

\* C11: a generation call that exceeds the turn timeout suspends its
\* participant and stores no message; it is the last turn of the run, for any
\* participant, and the run returns with status stopped.
C11_TimeoutStops ==
    /\ [](\A r \in Runs : \A k \in 1..Len(turnLog[r]) :
             turnLog[r][k].kind = "timeout"
             => /\ k = Len(turnLog[r])
                /\ ~turnLog[r][k].stored
                /\ pstatus[r][turnLog[r][k].pid] = "suspended"
                /\ pc[r] \in {"finalize", "returned", "done"}
                /\ exit_reason[r] = "timeout"
                /\ Returned(r) => status[r] = "stopped" /\ stop_reason[r] = "timeout")
    /\ [][\A r \in Runs :
             (/\ Len(turnLog'[r]) = Len(turnLog[r]) + 1
              /\ turnLog'[r][Len(turnLog'[r])].kind = "timeout")
             => messages'[r] = messages[r]]_vars

C11_Witness ==
    \E r \in Runs :
        /\ Returned(r)
        /\ Len(turnLog[r]) = 2
        /\ turnLog[r][1].stored
        /\ turnLog[r][2].kind = "timeout"
        /\ NumParticipants(r) = 2
        /\ current_round[r] < max_rounds[sid[r]]
        /\ stopCalls[sid[r]] = 0
        /\ status[r] = "stopped"
        /\ dbStatus[sid[r]] = "stopped"

\* some participant of run r has status active
SomeoneActive(r) == \E p \in ParticipantIds(1) : pstatus[r][p] = "active"

\* C12: no round is started when every participant is removed or suspended,
\* and a run in which that happened, with no stop call, limit breach or
\* timeout, returns finished, also when rounds remained.
C12_NobodyActiveFinishes ==
    \A r \in Runs :
        /\ pc[r] \in {"round_check", "round_refresh"} => SomeoneActive(r)
        /\ (/\ Returned(r)
            /\ ~SomeoneActive(r)
            /\ stopCalls[sid[r]] = 0
            /\ exit_reason[r] \notin {"limit", "timeout"})
           => /\ exit_reason[r] = "no_active"
              /\ status[r] = "finished"
              /\ turnLog[r][Len(turnLog[r])].round = current_round[r]

C12_Witness ==
    \E r \in Runs :
        /\ Returned(r)
        /\ ~SomeoneActive(r)
        /\ stopCalls[sid[r]] = 0
        /\ exit_reason[r] = "no_active"
        /\ current_round[r] = 2
        /\ current_round[r] < max_rounds[sid[r]]
        /\ \E p \in ParticipantIds(1) : pstatus[r][p] = "removed"
        /\ status[r] = "finished"

\* what one stored turn adds to the token total and to the cost total, at least
TurnTokens(reply) ==
    ReplyMessage(1, reply, usage_metadata).tokens_in
        + ReplyMessage(1, reply, usage_metadata).tokens_out

TokenLimitBelowOneTurn ==
    /\ settings.max_session_tokens # 0
    /\ \A reply \in Replies : TurnTokens(reply) > settings.max_session_tokens

CostLimitBelowOneTurn ==
    /\ settings.max_cost_per_session # 0
    /\ \A reply \in Replies :
          ReplyMessage(1, reply, usage_metadata).cost > settings.max_cost_per_session

\* the audit rows of run r with this action
AuditRows(r, action) == SelectSeq(audit_log[r], LAMBDA e : e.action = action)

\* C13: with a token limit (or a cost limit) below what one stored turn
\* produces, a run stores at most one model message; the turn that stored it
\* is the last turn, and the run returns stopped with one usage_limit_reached
\* audit row that names the limit and carries the totals of the transcript.
C13_LimitBelowOneTurn ==
    \A r \in Runs :
        (TokenLimitBelowOneTurn \/ CostLimitBelowOneTurn)
        => /\ Len(ModelMessages(messages[r])) <= 1
           /\ \A k \in 1..Len(turnLog[r]) :
                 turnLog[r][k].stored => k = Len(turnLog[r])
           /\ (Returned(r) /\ Len(ModelMessages(messages[r])) = 1)
              => /\ status[r] = "stopped"
                 /\ exit_reason[r] = "limit"
                 /\ Len(AuditRows(r, "usage_limit_reached")) = 1
                 /\ LET row == AuditRows(r, "usage_limit_reached")[1]
                    IN  /\ row.reason = IF TokenLimitBelowOneTurn
                                        THEN "token_limit" ELSE "cost_limit"
                        /\ row.tokens = CalculateUsage(messages[r]).tokens
                        /\ row.cost = CalculateUsage(messages[r]).cost
                        /\ AuditRows(r, "session_stopped")
                              = <<[action |-> "session_stopped", reason |-> row.reason,
                                   tokens |-> 0, cost |-> 0]>>

C13_Witness ==
    \E r \in Runs :
        /\ CostLimitBelowOneTurn
        /\ Returned(r)
        /\ Len(ModelMessages(messages[r])) = 1
        /\ NumParticipants(r) = 2
        /\ Len(turnLog[r]) = 2
        /\ status[r] = "stopped"
        /\ AuditRows(r, "usage_limit_reached")[1].reason = "cost_limit"
        /\ AuditRows(r, "usage_limit_reached")[1].cost = 2

\* C14 as stated: a limit check reports a breach exactly when the token total
\* or the cost total is greater than or equal to its non-zero limit.
C14_BreachAtOrAboveLimit ==
    \A r \in Runs : \A k \in 1..Len(limit_checks[r]) :
        LET c == limit_checks[r][k]
        IN  c.result # "none"
            <=> \/ /\ settings.max_session_tokens # 0
                   /\ c.tokens >= settings.max_session_tokens
                \/ /\ settings.max_cost_per_session # 0
                   /\ c.cost >= settings.max_cost_per_session

\* C14 as amended: a limit check reports a breach exactly when the token
\* total or the cost total is greater than its non-zero limit; a total equal
\* to the limit is no breach, and only a reported breach leaves the loop on
\* a limit.
C14_BreachAboveLimit ==
    \A r \in Runs :
        /\ \A k \in 1..Len(limit_checks[r]) :
              LET c == limit_checks[r][k]
              IN  /\ c.result = "token_limit"
                        <=> /\ settings.max_session_tokens # 0
                            /\ c.tokens > settings.max_session_tokens
                  /\ c.result = "cost_limit"
                        <=> /\ ~(/\ settings.max_session_tokens # 0
                                  /\ c.tokens > settings.max_session_tokens)
                            /\ settings.max_cost_per_session # 0
                            /\ c.cost > settings.max_cost_per_session
                  /\ c.result # "none" => k = Len(limit_checks[r])
        /\ exit_reason[r] = "limit"
              <=> /\ limit_checks[r] # <<>>
                  /\ limit_checks[r][Len(limit_checks[r])].result # "none"

C14_Witness ==
    \E r \in Runs :
        /\ settings.max_cost_per_session = 1
        /\ Len(limit_checks[r]) = 2
        /\ limit_checks[r][1].cost = 1 /\ limit_checks[r][1].result = "none"
        /\ limit_checks[r][2].cost = 2 /\ limit_checks[r][2].result = "cost_limit"
        /\ Returned(r) /\ status[r] = "stopped"

\* C15: a run that returns stopped on the token limit (on the cost limit) has
\* a transcript whose token total (cost total) is greater than the limit, and
\* at every earlier limit check of the run the total was not greater.
C15_StoppedAboveLimit ==
    \A r \in Runs :
        LET n == Len(limit_checks[r])
        IN  /\ (Returned(r) /\ stop_reason[r] = "token_limit")
               => /\ status[r] = "stopped"
                  /\ SumSeq([i \in 1..Len(messages[r]) |->
                                messages[r][i].tokens_in + messages[r][i].tokens_out])
                        > settings.max_session_tokens
                  /\ \A k \in 1..(n - 1) :
                        limit_checks[r][k].tokens <= settings.max_session_tokens
            /\ (Returned(r) /\ stop_reason[r] = "cost_limit")
               => /\ status[r] = "stopped"
                  /\ SumSeq([i \in 1..Len(messages[r]) |-> messages[r][i].cost])
                        > settings.max_cost_per_session
                  /\ \A k \in 1..(n - 1) :
                        limit_checks[r][k].cost <= settings.max_cost_per_session

C15_Witness ==
    \E r \in Runs :
        /\ Returned(r)
        /\ stop_reason[r] = "token_limit"
        /\ Len(limit_checks[r]) = 3
        /\ limit_checks[r][2].tokens = settings.max_session_tokens
        /\ limit_checks[r][3].tokens > settings.max_session_tokens
        /\ status[r] = "stopped"

\* the compression loop of run r is about to make a pass
CompressionTriggered(r) ==
    pc[r] = "post_store"
        /\ ContextExceedsLimit(messages[r], settings.context_token_limit)

\* C16: a token limit, a cost limit or a context budget of zero (or unset)
\* is no limit: no limit check reports it, no run stops on it, and a context
\* budget of zero triggers no compression pass.
C16_ZeroMeansUnlimited ==
    \A r \in Runs :
        /\ settings.max_session_tokens = 0
              => /\ stop_reason[r] # "token_limit"
                 /\ \A k \in 1..Len(limit_checks[r]) :
                       limit_checks[r][k].result # "token_limit"
        /\ settings.max_cost_per_session = 0
              => /\ stop_reason[r] # "cost_limit"
                 /\ \A k \in 1..Len(limit_checks[r]) :
                       limit_checks[r][k].result # "cost_limit"
        /\ settings.context_token_limit = 0 => ~CompressionTriggered(r)

\* C17: the progress callback has been called once for each stored turn, in
\* order, with the stored message and the 1-based number of its round, and
\* the message was in the transcript when it was called; turns that stored
\* nothing made no call.
C17_CallbackPerStoredMessage ==
    /\ [](\A r \in Runs :
             /\ Len(callbacks[r]) = Len(StoredTurns(r))
             /\ \A i \in 1..Len(callbacks[r]) :
                   LET c == callbacks[r][i]
                       t == StoredTurns(r)[i]
                   IN  /\ c.message.author_type = "model"
                       /\ c.message.author = t.pid
                       /\ c.message.content = t.reply
                       /\ c.round = t.round
                       /\ c.round \in 1..max_rounds[sid[r]])
    /\ [][\A r \in Runs :
             IF Len(turnLog'[r]) = Len(turnLog[r]) + 1
                   /\ turnLog'[r][Len(turnLog'[r])].stored
             THEN /\ Len(callbacks'[r]) = Len(callbacks[r]) + 1
                  /\ messages'[r]
                        = Append(messages[r], callbacks'[r][Len(callbacks'[r])].message)
                  /\ callbacks'[r][Len(callbacks'[r])].round = current_round[r] + 1
                  /\ pc'[r] # "awaiting"
             ELSE callbacks'[r] = callbacks[r]]_vars

C17_Witness ==
    \E r \in Runs :
        /\ Len(callbacks[r]) = 2
        /\ Len(turnLog[r]) = 4
        /\ callbacks[r][1].round = 1
        /\ callbacks[r][2].round = 2
        /\ \E k \in 1..4 : turnLog[r][k].kind = "error"
        /\ \E k \in 1..4 : IsEmptyReply(turnLog[r][k])

\* C18: a progress callback that raises does not end the run: its error does
\* not leave start_session.
C18_CallbackErrorContained ==
    \A r \in Runs : pc[r] # "raised"

\* the messages of ms that one compression pass may replace: not among the 3
\* most recent, not system-authored, not empty
Qualifying(ms) ==
    {i \in 1..Len(ms) : /\ i <= Len(ms) - 3
                        /\ ms[i].author_type # "system"
                        /\ ms[i].content # <<>>}

\* out is ms with one summary message appended, every message of `replaced`
\* blanked and every other message as it was
CompressedTo(ms, out, replaced) ==
    /\ Len(out) = Len(ms) + 1
    /\ out[Len(out)].author_type = "system"
    /\ out[Len(out)].content # <<>>
    /\ \A i \in 1..Len(ms) :
          IF i \in replaced
          THEN /\ out[i].content = <<>>
               /\ out[i].tokens_in = 0 /\ out[i].tokens_out = 0
               /\ out[i].author = ms[i].author
               /\ out[i].author_type = ms[i].author_type
          ELSE out[i] = ms[i]
    /\ \A i \in 1..Len(ms) : i > Len(ms) - 3 => out[i] = ms[i]

\* C19 as stated: a compression pass on a transcript above the budget keeps
\* every message in place, appends one system summary, blanks the compressed
\* messages and leaves the 3 most recent messages untouched.
C19_PassAppendsSummary ==
    \A r \in Runs :
        CompressionTriggered(r)
        => \E replaced \in SUBSET (1..Len(messages[r])) :
              CompressedTo(messages[r], CompressHistory(messages[r]), replaced)

\* C19 as amended: the pass does so when a message qualifies for compression
\* (not among the 3 most recent, not system-authored, not empty), and it
\* replaces the qualifying messages; when none qualifies the pass changes
\* nothing and appends no summary.
C19_PassAppendsSummaryIfQualifying ==
    \A r \in Runs :
        CompressionTriggered(r)
        => LET ms == messages[r]
               out == CompressHistory(ms)
           IN  IF Qualifying(ms) = {}
               THEN out = ms
               ELSE CompressedTo(ms, out, Qualifying(ms))

C19_Witness ==
    \E r \in Runs :
        /\ pc[r] = "post_store"
        /\ Len(messages[r]) = 5
        /\ messages[r][5].author_type = "system"
        /\ messages[r][1].content = <<>>
        /\ messages[r][2].content # <<>>
        /\ Len(AuditRows(r, "history_compressed")) = 1

\* C20: the compression loop after a turn comes to an end: it is never about
\* to make a pass that changes nothing while the estimate is still above the
\* budget (the loop condition would then hold after every pass).
C20_CompressionLoopEnds ==
    \A r \in Runs :
        ~(/\ CompressionTriggered(r)
          /\ settings.context_token_limit > 0
          /\ CompressHistory(messages[r]) = messages[r])

\* C22: a run that met a capability error, a timeout, a limit breach or a stop
\* request returns with status finished or stopped, never running; an error
\* leaves start_session only from the progress callback of a stored turn.
C22_ReturnsTerminalStatus ==
    \A r \in Runs :
        /\ Returned(r) => status[r] \in {"finished", "stopped"}
        /\ pc[r] = "done" => dbStatus[sid[r]] \in {"finished", "stopped"}
        /\ pc[r] = "raised"
              => /\ turnLog[r] # <<>>
                 /\ turnLog[r][Len(turnLog[r])].stored
                 /\ exit_reason[r] = "none"

C22_Witness ==
    \E r \in Runs :
        /\ pc[r] = "done"
        /\ Len(turnLog[r]) = 2
        /\ turnLog[r][1].kind = "error"
        /\ turnLog[r][2].kind = "timeout"
        /\ stopCalls[sid[r]] = 1
        /\ stopPending[sid[r]] = 1
        /\ status[r] = "stopped"

\* C21: create_session creates no session when there is no enabled provider
\* or no personality; it fails instead.
C21_NoSessionWithoutProviders ==
    \A s \in SessionIds :
        (providers = <<>> \/ personalities = <<>>)
        => /\ s \notin sessions
           /\ created[s].outcome # "created"

\* the run is inside the round loop of _run_dialogue
InLoop(r) ==
    pc[r] \in {"round_check", "round_refresh", "turn_check", "turn_refresh",
               "awaiting", "post_store", "post_refresh"}

\* C23: no two runs of one session are inside the round loop at the same
\* time, and so no two generation calls of one session are in flight at once.
C23_OneLoopPerSession ==
    \A r1, r2 \in Runs :
        (r1 # r2 /\ sid[r1] = sid[r2])
        => /\ ~(InLoop(r1) /\ InLoop(r2))
           /\ ~(pc[r1] = "awaiting" /\ pc[r2] = "awaiting")

\* C24: every condition that ends a session has an audit row naming the
\* cause, and the row is written before the terminal status is persisted:
\* a returned run has the row of its exit, and no session_stopped row of
\* stop_session was written under an already persisted terminal status.
C24_CauseLoggedBeforeStatus ==
    /\ \A s \in SessionIds :
          \A i \in 1..Len(stop_audit[s]) :
              stop_audit[s][i].persisted \notin {"stopped", "finished"}
    /\ \A r \in Runs :
          Returned(r)
          => /\ exit_reason[r] \in FinishExits
                  => AuditRows(r, "session_finished") # <<>>
             /\ exit_reason[r] = "limit"
                  => AuditRows(r, "usage_limit_reached") # <<>>
             /\ exit_reason[r] = "timeout"
                  => AuditRows(r, "turn_timeout") # <<>>
             /\ exit_reason[r] \in SignalExits \cup StatusExits
                  => \/ AuditRows(r, "session_stopped") # <<>>
                     \/ stop_audit[sid[r]] # <<>>

\* C25: the step in which a run of session s takes its terminal status leaves
\* the registry without an entry for s, and leaves set both the signal that was
\* registered for s and the signal the run holds.
C25_SignalReleased ==
    [][\A r \in Runs :
          (pc[r] = "finalize" /\ pc'[r] = "returned")
          => /\ stop_events'.map[sid[r]] = 0
             /\ \A e \in 1..Len(stop_events.events) :
                   (e = stop_events.map[sid[r]] \/ e = stop_event[r])
                   => stop_events'.events[e]]_vars

\* a run nobody asked to stop has returned: its signal is out of the registry
\* and set
C25_Witness ==
    \E r \in Runs :
        /\ pc[r] = "returned"
        /\ exit_reason[r] = "max_rounds"
        /\ stopCalls[sid[r]] = 0
        /\ stop_event[r] # 0
        /\ stop_events.map[sid[r]] = 0
        /\ stop_events.events[stop_event[r]]

\* C26: with max_rounds positive, current_round of a run never exceeds
\* max_rounds of its session.
C26_RoundWithinMax ==
    \A r \in Runs :
        (sid[r] \in SessionIds /\ max_rounds[sid[r]] > 0)
        => current_round[r] <= max_rounds[sid[r]]

\* a run completed all the rounds of a session of more than one round
C26_Witness ==
    \E r \in Runs :
        /\ pc[r] = "returned"
        /\ exit_reason[r] = "max_rounds"
        /\ max_rounds[sid[r]] > 1
        /\ current_round[r] = max_rounds[sid[r]]
        /\ Len(StoredTurns(r)) >= 2

\* C27: finished_at of a session is written at most once: after the write
\* that accompanies leaving running, neither the round loop nor stop_session
\* writes it again.
C27_FinishedAtWrittenOnce ==
    \A s \in SessionIds : finished_at[s] <= 1

\* run r is the only run of its session
OnlyRun(r) == \A q \in Runs : q # r => sid[q] # sid[r]

\* C28: a stop request for one session leaves the runs of the other sessions
\* alone: the only run of a session nobody asked to stop never sees its signal
\* set inside the loop, never leaves the loop on a signal or a stored stopped
\* status, and ends stopped only on its own limit or timeout; and a step of
\* stop_session for session s changes neither the status, the transcript, the
\* turns nor the signal of a run of another session.
C28_SessionsIndependent ==
    /\ [](\A r \in Runs :
            (sid[r] \in SessionIds /\ OnlyRun(r) /\ stopCalls[sid[r]] = 0)
            => /\ InLoop(r) => ~IsSet(stop_events, stop_event[r])
               /\ exit_reason[r] \notin SignalExits \cup StatusExits
               /\ dbStatus[sid[r]] = "stopped"
                     => exit_reason[r] \in {"limit", "timeout"}
               /\ Returned(r) /\ status[r] = "stopped"
                     => exit_reason[r] \in {"limit", "timeout"})
    /\ [][\A s \in SessionIds :
            (stopCalls'[s] # stopCalls[s] \/ stopPending'[s] # stopPending[s])
            => \A r \in Runs :
                  (sid[r] \in SessionIds /\ sid[r] # s)
                  => /\ status'[r] = status[r]
                     /\ messages'[r] = messages[r]
                     /\ turnLog'[r] = turnLog[r]
                     /\ dbStatus'[sid[r]] = dbStatus[sid[r]]
                     /\ store'[sid[r]] = store[sid[r]]
                     /\ IsSet(stop_events', stop_event[r])
                           = IsSet(stop_events, stop_event[r])]_vars

\* session 1 was stopped during its run while the run of session 2 goes on
C28_Witness ==
    /\ sid[1] = 1
    /\ sid[2] = 2
    /\ exit_reason[1] \in SignalExits
    /\ dbStatus[1] = "stopped"
    /\ stopPending[1] = 0
    /\ pc[2] = "awaiting"
    /\ Len(StoredTurns(2)) = 1
    /\ dbStatus[2] = "running"

\* the transcript has exactly one user-authored message, ahead of every
\* model message
OneLeadingTopic(ms) ==
    /\ Cardinality({i \in 1..Len(ms) : ms[i].author_type = "user"}) = 1
    /\ \A i, j \in 1..Len(ms) :
          (ms[i].author_type = "user" /\ ms[j].author_type = "model") => i < j

\* C29: once start_session has begun a run, the transcript the run works on
\* and the transcript committed for the session hold exactly one user-authored
\* topic message, ahead of every model message, however often the session was
\* started.
C29_OneTopicMessage ==
    /\ \A r \in Runs :
          pc[r] \notin {"off", "idle", "starting"} => OneLeadingTopic(messages[r])
    /\ \A s \in SessionIds :
          store[s].messages # <<>> => OneLeadingTopic(store[s].messages)

\* the seat of a participant in the seating order, counted from 0
SeatOf(name) == (CHOOSE i \in 1..Len(seating) : seating[i] = name) - 1

\* C30: advance_round(steps) with steps >= 0 returns and makes moderator the
\* participant steps seats after the previous moderator in the seating
\* order, wrapping around, so that after advances totalling k the moderator
\* sits at seat k mod n; with steps < 0 it raises ValidationError and the
\* moderator stays who it was.
C30_AdvanceRound ==
    rotation # <<>>
    => LET n == Len(seating)
           res == advance_result
       IN  /\ CurrentModerator = seating[(advanced % n) + 1]
           /\ res.outcome # "none"
                => /\ res.steps < 0 <=> res.outcome = "ValidationError"
                   /\ res.steps >= 0 <=> res.outcome = "returned"
           /\ res.outcome = "ValidationError" => CurrentModerator = res.before
           /\ res.outcome = "returned"
                => /\ res.value = CurrentModerator
                   /\ CurrentModerator
                        = seating[((SeatOf(res.before) + res.steps) % n) + 1]

\* at a table of three, advances totalling 7 ended with one of 4 steps
C30_Witness ==
    /\ Len(seating) = 3
    /\ advanced = 7
    /\ advance_result.outcome = "returned"
    /\ advance_result.steps = 4
    /\ CurrentModerator = seating[2]

\* the messages of ms that are not system-authored, in order
NonSystem(ms) == SelectSeq(ms, LAMBDA m : m.author_type # "system")

\* C31: whatever compression passes a run has made, the 3 most recent
\* non-system messages of its transcript still have their content.
C31_RecentTailKept ==
    \A r \in Runs :
        LET ns == NonSystem(messages[r])
        IN  \A i \in 1..Len(ns) : i > Len(ns) - 3 => ns[i].content # <<>>

\* C32: a reply with the same text as the participant's previous reply is
\* not stored: the turn leaves the transcript as it was.
C32_RepeatNotStored ==
    \A r \in Runs : \A p \in 1..MaxParticipants :
        LET ts == TurnsOf(r, p)
        IN  \A k \in 1..(Len(ts) - 1) :
               (/\ ts[k].kind = "reply"
                /\ ts[k + 1].kind = "reply"
                /\ ts[k + 1].reply = ts[k].reply)
               => ~ts[k + 1].stored

\* turn k of ts is a reply with text that none of the participant's earlier
\* replies had (surrounding whitespace aside)
NewText(ts, k) ==
    /\ ts[k].kind = "reply"
    /\ Strip(ts[k].reply) # <<>>
    /\ \A j \in 1..(k - 1) :
          ts[j].kind = "reply" => Strip(ts[j].reply) # Strip(ts[k].reply)

\* turn k of ts is a reply that is empty or has the text of the turn before
EmptyOrSame(ts, k) ==
    /\ ts[k].kind = "reply"
    /\ \/ Strip(ts[k].reply) = <<>>
       \/ k > 1 /\ ts[k - 1].kind = "reply"
                /\ Strip(ts[k - 1].reply) = Strip(ts[k].reply)

C34_StatusOneWay ==
    /\ [](\A r \in Runs :
            pc[r] = "awaiting" => pstatus[r][Current(r)] = "active")
    /\ [][\A r \in Runs : \A p \in DOMAIN pstatus[r] :
            pstatus[r][p] # "active" => pstatus'[r][p] = pstatus[r][p]]_vars

\* participant 1 was suspended in round 1 and round 2 has reached the turn
\* of participant 2
C34_Witness ==
    \E r \in Runs :
        /\ pc[r] = "awaiting"
        /\ current_round[r] = 1
        /\ Current(r) = 2
        /\ pstatus[r][1] = "suspended"
        /\ pstatus[r][2] = "active"

\* the round of the last turn run r has taken
LastRound(r) == turnLog[r][Len(turnLog[r])].round

\* a step of run r that leaves the loop on a stop signal, a stored stopped
\* status, a limit breach or a timeout
CutShort(r) ==
    pc[r] # "finalize" /\ pc'[r] = "finalize" /\ exit_reason'[r] \in StopExits

C36_SignalMeansStopped ==
    [][\A r \in Runs :
          (/\ pc[r] = "finalize"
           /\ pc'[r] = "returned"
           /\ IsSet(stop_events, stop_event[r]))
          => status'[r] = "stopped"]_vars

\* C37: the token total of a limit check of a run is never below the total
\* of the run's previous limit check.
C37_TotalsNeverDecrease ==
    \A r \in Runs :
        \A k \in 1..(Len(limit_checks[r]) - 1) :
            limit_checks[r][k].tokens <= limit_checks[r][k + 1].tokens

\* C38: a stop_session call made while no run of the session is under way
\* leaves no signal in the registry: as long as start_session has not been
\* called and no stop_session call is in progress, the registry has no entry
\* for the session, so the run that starts next begins with a fresh signal.
C38_NoSignalLeftBehind ==
    \A r \in Runs :
        (pc[r] = "idle" /\ stopPending[sid[r]] = 0)
        => stop_events.map[sid[r]] = 0

\* C39: a session create_session has created has one participant per enabled
\* provider, in provider order: participant i (from 0) has order_index i and
\* personality i mod P of the P personalities; the order indexes differ, no
\* message is stored and no run has begun.
C39_OneParticipantPerProvider ==
    \A s \in SessionIds :
        created[s].outcome = "created"
        => LET ps == created[s].participants
               P == Len(personalities)
           IN  /\ Len(ps) = Len(providers)
               /\ \A i \in 1..Len(ps) :
                     /\ ps[i].provider_id = providers[i]
                     /\ ps[i].order_index = i - 1
                     /\ ps[i].personality_id = personalities[((i - 1) % P) + 1]
               /\ \A i, j \in 1..Len(ps) :
                     ps[i].order_index = ps[j].order_index => i = j
               /\ store[s].messages = <<>>
               /\ \A r \in Runs : pc[r] = "off"

\* C40: when api_stop_session has marked the session stopped while run was in
\* progress, run invokes no provider afterwards and the committed status of
\* the session stays stopped.
C40_WorkerHonoursStop ==
    worker.stopped \in {"while", "for", "final"}
    => /\ worker.late = 0
       /\ worker.pc = "committed" => worker.db_status = "stopped"

====
